---- MODULE Spec2Model ----
(***************************************************************************)
(* Address validator: Google / Smarty provider adapters, their status      *)
(* classifiers, the fallback orchestrator (AddressService) and the HTTP    *)
(* layer (validateRequest middleware and AddressController).               *)
(*                                                                         *)
(* JSON objects are functions from field names to values; a field that is  *)
(* undefined in JavaScript is a field outside the DOMAIN of the function.   *)
(* Free text whose characters matter (the address, delivery_line_1) is a   *)
(* sequence of one-character strings; an Error message is a sequence of    *)
(* text fragments, so that String.includes is a sub-sequence test.         *)
(***************************************************************************)
EXTENDS Integers, Sequences, FiniteSets, TLC

VARIABLES
    env,            \* process configuration: NODE_ENV and the three credentials
    pc,             \* position of the request in the HTTP / service / adapter chain
    req,            \* req.body of the request being served
    calls,          \* adapter invocations of this request, in order: [adapter, address]
    fetches,        \* outbound network calls of this request, in order
    replies,        \* what the network answered to them, in order: [adapter, reply]
    googleOutcome,  \* settled promise of googleService.validateAddress
    smartyOutcome,  \* settled promise of smartyService.validateAddress
    googleResponse, \* local googleResponse of validateWithFallback
    svc,            \* settled promise of addressService.validateAddress
    http,           \* HTTP response written by the middleware or the controller
    raw,            \* classifier development: the raw provider payload
    original,       \* classifier development: the caller's address string
    parsed,         \* classifier development: result of the parse step
    inflight        \* concurrent calls of validateAddress: the locals of each call

vars == <<env, pc, req, calls, fetches, replies, googleOutcome, smartyOutcome,
          googleResponse, svc, http, raw, original, parsed, inflight>>

orchVars == <<env, pc, req, calls, fetches, replies, googleOutcome, smartyOutcome,
              googleResponse, svc, http>>

classVars == <<raw, original, parsed>>

-----------------------------------------------------------------------------
(* Bounds of the model *)

\* longest addressComponents list of a Google payload
MaxComponents == 2

\* longest Smarty result set
MaxCandidates == 2

\* number of validateAddress calls in flight at once
MaxRequests == 2

-----------------------------------------------------------------------------
(* JavaScript values *)

EmptyObj == [k \in {} |-> k]

Has(o, f) == f \in DOMAIN o

\* truthiness of an optional string field
TruthyStr(o, f) == Has(o, f) /\ o[f] # ""

\* truthiness of an optional boolean field
TruthyBool(o, f) == Has(o, f) /\ o[f] = TRUE

\* all objects with the single optional field f drawn from Vals
OptField(f, Vals) == {EmptyObj} \cup {f :> v : v \in Vals}

SeqsUpTo(S, n) == UNION {[1..k -> S] : k \in 0..n}

Range(s) == {s[i] : i \in DOMAIN s}

\* settled promises
None == [kind |-> "none"]
Resolved(v) == [kind |-> "ok", value |-> v]
Rejected(m) == [kind |-> "err", message |-> m]

\* the accumulator of one classification pass
StartPass == [status |-> "VALID", corrections |-> <<>>, warnings |-> <<>>]

-----------------------------------------------------------------------------
(* GoogleService: status classifier and standardized-address extraction *)

NonUSWarning(regionCode) ==
    "Non-US address detected (" \o regionCode \o "). Only US addresses are supported."

\* rule 1: region code present and not "US"
GoogleRegionRule(acc, address) ==
    LET pa == address.postalAddress IN
    IF TruthyStr(pa, "regionCode") /\ pa.regionCode # "US"
    THEN [acc EXCEPT !.status = "UNVERIFIABLE",
                     !.warnings = Append(@, NonUSWarning(pa.regionCode))]
    ELSE acc

\* the warning is put in front of the list
GoogleCompleteRule_Prepends(acc, verdict) ==
    IF ~TruthyBool(verdict, "addressComplete")
    THEN [acc EXCEPT !.status = "UNVERIFIABLE",
                     !.warnings = <<"Address is incomplete">> \o @]
    ELSE acc

\* rule 2: address incomplete
GoogleCompleteRule(acc, verdict) ==
    IF ~TruthyBool(verdict, "addressComplete")
    THEN [acc EXCEPT !.status = "UNVERIFIABLE",
                     !.warnings = Append(@, "Address is incomplete")]
    ELSE acc

\* rule 3: replaced components
GoogleReplacedRule(acc, verdict) ==
    IF TruthyBool(verdict, "hasReplacedComponents")
    THEN [acc EXCEPT !.status = "CORRECTED",
                     !.corrections = Append(@, "Address components were corrected or replaced")]
    ELSE acc

\* the component levels are inspected whatever the verdict flag says
GoogleUnconfirmedRule_IgnoresFlag(acc, verdict, address) ==
    IF \E i \in DOMAIN address.addressComponents :
           address.addressComponents[i].confirmationLevel = "UNCONFIRMED_AND_SUSPICIOUS"
    THEN [acc EXCEPT !.status = "UNVERIFIABLE",
                     !.warnings = Append(@, "Address contains suspicious components")]
    ELSE acc

\* suspicious only when every unconfirmed component is suspicious
GoogleUnconfirmedRule_Every(acc, verdict, address) ==
    IF TruthyBool(verdict, "hasUnconfirmedComponents")
    THEN IF \A i \in DOMAIN address.addressComponents :
                address.addressComponents[i].confirmationLevel # "CONFIRMED" =>
                    address.addressComponents[i].confirmationLevel = "UNCONFIRMED_AND_SUSPICIOUS"
         THEN [acc EXCEPT !.status = "UNVERIFIABLE",
                          !.warnings = Append(@, "Address contains suspicious components")]
         ELSE IF acc.status = "VALID"
         THEN [acc EXCEPT !.status = "CORRECTED",
                          !.warnings = Append(@, "Address contains unconfirmed but plausible components")]
         ELSE acc
    ELSE acc

\* rule 4: unconfirmed components
GoogleUnconfirmedRule(acc, verdict, address) ==
    IF TruthyBool(verdict, "hasUnconfirmedComponents")
    THEN LET comps == address.addressComponents
             unconfirmedComponents ==
                 {i \in DOMAIN comps :
                     ~(Has(comps[i], "confirmationLevel")
                       /\ comps[i].confirmationLevel = "CONFIRMED")}
         IN  IF \E i \in unconfirmedComponents :
                    /\ Has(comps[i], "confirmationLevel")
                    /\ comps[i].confirmationLevel = "UNCONFIRMED_AND_SUSPICIOUS"
             THEN [acc EXCEPT !.status = "UNVERIFIABLE",
                              !.warnings = Append(@, "Address contains suspicious components")]
             ELSE IF acc.status = "VALID"
             THEN [acc EXCEPT !.status = "CORRECTED",
                              !.warnings = Append(@, "Address contains unconfirmed but plausible components")]
             ELSE acc
    ELSE acc

\* the status is lowered without a warning
GoogleGranularityRule_Silent(acc, verdict) ==
    IF /\ Has(verdict, "validationGranularity")
       /\ verdict.validationGranularity \in {"OTHER", "GRANULARITY_UNSPECIFIED"}
    THEN [acc EXCEPT !.status = "UNVERIFIABLE"]
    ELSE acc

\* rule 5: insufficient validation granularity
GoogleGranularityRule(acc, verdict) ==
    IF /\ Has(verdict, "validationGranularity")
       /\ verdict.validationGranularity \in {"OTHER", "GRANULARITY_UNSPECIFIED"}
    THEN [acc EXCEPT !.status = "UNVERIFIABLE",
                     !.warnings = Append(@, "Address validation granularity is insufficient")]
    ELSE acc

\* Array.prototype.find by componentType: index of the first match, 0 if none
FindComponent(components, type) ==
    IF \E i \in DOMAIN components :
           Has(components[i], "componentType") /\ components[i].componentType = type
    THEN CHOOSE i \in DOMAIN components :
           /\ Has(components[i], "componentType") /\ components[i].componentType = type
           /\ \A j \in 1..(i - 1) :
                ~(Has(components[j], "componentType") /\ components[j].componentType = type)
    ELSE 0

\* components.find(...)?.componentName.text as an optional field
ComponentText(components, type, field) ==
    LET i == FindComponent(components, type) IN
    IF i # 0 /\ Has(components[i].componentName, "text")
    THEN field :> components[i].componentName.text
    ELSE EmptyObj

\* value || undefined as an optional field
OrUndefined(o, f, field) == IF TruthyStr(o, f) THEN field :> o[f] ELSE EmptyObj

GoogleExtractStandardizedAddress(address) ==
    LET components == address.addressComponents
        postalAddress == address.postalAddress
    IN  ComponentText(components, "street_number", "number")
        @@ ComponentText(components, "route", "street")
        @@ OrUndefined(postalAddress, "locality", "city")
        @@ OrUndefined(postalAddress, "administrativeArea", "state")
        @@ OrUndefined(postalAddress, "postalCode", "zip")

\* the payloads on which parseGoogleResponse raises a TypeError
\* (a property read on undefined)
GoogleParseThrows(response) ==
    \/ ~Has(response, "result")
    \/ ~Has(response.result, "address")
    \/ ~Has(response.result.address, "postalAddress")
    \/ ~Has(response.result, "verdict")
    \/ ~Has(response.result.address, "addressComponents")
    \/ LET components == response.result.address.addressComponents IN
       \E type \in {"street_number", "route"} :
           /\ FindComponent(components, type) # 0
           /\ ~Has(components[FindComponent(components, type)], "componentName")

TypeErrorMessage == <<"Cannot read properties of undefined">>

parseGoogleResponse(response) ==
    IF GoogleParseThrows(response)
    THEN Rejected(TypeErrorMessage)
    ELSE LET verdict == response.result.verdict
             address == response.result.address
             a1 == GoogleRegionRule(StartPass, address)
             a2 == GoogleCompleteRule(a1, verdict)
             a3 == GoogleReplacedRule(a2, verdict)
             a4 == GoogleUnconfirmedRule(a3, verdict, address)
             a5 == GoogleGranularityRule(a4, verdict)
         IN  Resolved([standardized |-> GoogleExtractStandardizedAddress(address),
                       status |-> a5.status,
                       corrections |-> a5.corrections,
                       warnings |-> a5.warnings])

-----------------------------------------------------------------------------
(* SmartyService: status classifier and standardized-address extraction *)

UpperCase == <<"A","B","C","D","E","F","G","H","I","J","K","L","M",
               "N","O","P","Q","R","S","T","U","V","W","X","Y","Z">>
LowerCase == <<"a","b","c","d","e","f","g","h","i","j","k","l","m",
               "n","o","p","q","r","s","t","u","v","w","x","y","z">>

LowerChar(c) ==
    IF \E i \in DOMAIN UpperCase : UpperCase[i] = c
    THEN LowerCase[CHOOSE i \in DOMAIN UpperCase : UpperCase[i] = c]
    ELSE c

\* String.prototype.toLowerCase
toLowerCase(s) == [i \in DOMAIN s |-> LowerChar(s[i])]

Min(a, b) == IF a < b THEN a ELSE b

\* String.prototype.substring(0, n)
substring0(s, n) == SubSeq(s, 1, Min(n, Len(s)))

\* String.prototype.includes
includes(s, sub) ==
    \E i \in 1..(Len(s) + 1) :
        /\ i + Len(sub) - 1 <= Len(s)
        /\ SubSeq(s, i, i + Len(sub) - 1) = sub

\* length of the delivery-line prefix compared with the input
PrefixLen == 20

\* rules 1 and 2: dpv_match_code
SmartyMatchCodeRule(acc, analysis) ==
    IF Has(analysis, "dpv_match_code") /\ analysis.dpv_match_code = "N"
    THEN [acc EXCEPT !.status = "UNVERIFIABLE",
                     !.warnings = Append(@, "Address could not be confirmed by USPS")]
    ELSE IF Has(analysis, "dpv_match_code") /\ analysis.dpv_match_code \in {"S", "D"}
    THEN [acc EXCEPT !.status = "CORRECTED",
                     !.warnings = Append(@, "Address is missing secondary information (apt, suite, etc.)")]
    ELSE acc

\* the correction is recorded and the status kept
SmartyEnhancedRule_KeepsStatus(acc, analysis) ==
    IF TruthyStr(analysis, "enhanced_match")
    THEN [acc EXCEPT !.corrections = Append(@, "Address was enhanced or corrected")]
    ELSE acc

\* rule 3: enhanced_match
SmartyEnhancedRule(acc, analysis) ==
    IF TruthyStr(analysis, "enhanced_match")
    THEN [acc EXCEPT !.status = "CORRECTED",
                     !.corrections = Append(@, "Address was enhanced or corrected")]
    ELSE acc

\* the whole delivery line is looked for, not its prefix
SmartyFormatRule_WholeLine(acc, candidate, originalAddress) ==
    LET deliveryLine == toLowerCase(candidate.delivery_line_1)
        inputLower == toLowerCase(originalAddress)
    IN  IF ~includes(inputLower, deliveryLine) /\ acc.status = "VALID"
        THEN [acc EXCEPT !.status = "CORRECTED",
                         !.corrections = Append(@, "Address format was standardized")]
        ELSE acc

\* rule 4: the delivery line was silently standardized
SmartyFormatRule(acc, candidate, originalAddress) ==
    LET deliveryLine == toLowerCase(candidate.delivery_line_1)
        inputLower == toLowerCase(originalAddress)
    IN  IF ~includes(inputLower, substring0(deliveryLine, Min(PrefixLen, Len(deliveryLine))))
           /\ acc.status = "VALID"
        THEN [acc EXCEPT !.status = "CORRECTED",
                         !.corrections = Append(@, "Address format was standardized")]
        ELSE acc

\* a vacant address is downgraded
SmartyVacantRule_Downgrades(acc, analysis) ==
    IF Has(analysis, "dpv_vacant") /\ analysis.dpv_vacant = "Y"
    THEN [acc EXCEPT !.status = IF @ = "VALID" THEN "CORRECTED" ELSE @,
                     !.warnings = Append(@, "Address is marked as vacant")]
    ELSE acc

\* rule 5: vacant
SmartyVacantRule(acc, analysis) ==
    IF Has(analysis, "dpv_vacant") /\ analysis.dpv_vacant = "Y"
    THEN [acc EXCEPT !.warnings = Append(@, "Address is marked as vacant")]
    ELSE acc

\* rule 6: record type other than street / high-rise
SmartyRecordTypeRule(acc, metadata) ==
    IF ~(Has(metadata, "record_type") /\ metadata.record_type \in {"S", "H"})
    THEN [acc EXCEPT !.warnings =
              Append(@, "Address record type is "
                        \o (IF Has(metadata, "record_type")
                            THEN metadata.record_type ELSE "undefined"))]
    ELSE acc

\* Array.prototype.join(" ")
RECURSIVE JoinSpace(_)
JoinSpace(parts) ==
    IF Len(parts) = 0 THEN ""
    ELSE IF Len(parts) = 1 THEN parts[1]
    ELSE parts[1] \o " " \o JoinSpace(Tail(parts))

\* [predirection, name, suffix, postdirection].filter(Boolean)
StreetParts(components) ==
    LET part(f) == IF TruthyStr(components, f) THEN <<components[f]>> ELSE <<>>
    IN  part("street_predirection") \o part("street_name")
        \o part("street_suffix") \o part("street_postdirection")

\* a field copied as it is: absent stays absent, "" stays ""
CopyField(o, f, field) == IF Has(o, f) THEN field :> o[f] ELSE EmptyObj

\* the plus-4 code is appended without looking at the zipcode
SmartyZip_Plus4Only(components) ==
    IF TruthyStr(components, "plus4_code")
    THEN "zip" :> ((IF Has(components, "zipcode") THEN components.zipcode ELSE "undefined")
                   \o "-" \o components.plus4_code)
    ELSE CopyField(components, "zipcode", "zip")

SmartyZip(components) ==
    IF TruthyStr(components, "zipcode") /\ TruthyStr(components, "plus4_code")
    THEN "zip" :> (components.zipcode \o "-" \o components.plus4_code)
    ELSE CopyField(components, "zipcode", "zip")

SmartyExtractStandardizedAddress(components) ==
    LET streetParts == StreetParts(components) IN
    CopyField(components, "primary_number", "number")
    @@ (IF Len(streetParts) > 0 THEN "street" :> JoinSpace(streetParts) ELSE EmptyObj)
    @@ CopyField(components, "city_name", "city")
    @@ CopyField(components, "state_abbreviation", "state")
    @@ SmartyZip(components)

\* the candidates on which parseSmartyResponse raises a TypeError
SmartyParseThrows(candidate) ==
    \/ ~Has(candidate, "analysis")
    \/ ~Has(candidate, "delivery_line_1")
    \/ ~Has(candidate, "metadata")
    \/ ~Has(candidate, "components")

parseSmartyResponse(candidate, originalAddress) ==
    IF SmartyParseThrows(candidate)
    THEN Rejected(TypeErrorMessage)
    ELSE LET analysis == candidate.analysis
             metadata == candidate.metadata
             components == candidate.components
             a1 == SmartyMatchCodeRule(StartPass, analysis)
             a2 == SmartyEnhancedRule(a1, analysis)
             a3 == SmartyFormatRule(a2, candidate, originalAddress)
             a4 == SmartyVacantRule(a3, analysis)
             a5 == SmartyRecordTypeRule(a4, metadata)
         IN  Resolved([standardized |-> SmartyExtractStandardizedAddress(components),
                       status |-> a5.status,
                       corrections |-> a5.corrections,
                       warnings |-> a5.warnings])

\* the early return of SmartyService.validateAddress on an empty result set
NoMatch == [standardized |-> EmptyObj, status |-> "UNVERIFIABLE",
            corrections |-> <<>>, warnings |-> <<"No matching address found">>]

\* the last candidate of the result set is the one classified
SmartyHandleData_LastCandidate(data, address) ==
    IF data.isNull \/ Len(data.items) = 0
    THEN Resolved(NoMatch)
    ELSE parseSmartyResponse(data.items[Len(data.items)], address)

\* SmartyService.validateAddress after response.json(): data is
\* [isNull |-> TRUE] for null, [isNull |-> FALSE, items |-> candidates] otherwise
SmartyHandleData(data, address) ==
    IF data.isNull \/ Len(data.items) = 0
    THEN Resolved(NoMatch)
    ELSE parseSmartyResponse(data.items[1], address)

-----------------------------------------------------------------------------
(* Process configuration (envConfig) *)

startsWith(s, prefix) == Len(s) >= 1 /\ s[1] = prefix

TestCredential == <<"test-", "placeholder">>
RealCredential == <<"live-credential">>

\* the refinements of envSchema: a "test-" credential is accepted only
\* when NODE_ENV is "test"; otherwise the process does not start
EnvAccepted(e) ==
    \A k \in {"GOOGLE_API_KEY", "SMARTY_AUTH_ID", "SMARTY_AUTH_TOKEN"} :
        e.NODE_ENV = "test" \/ ~startsWith(e[k], "test-")

Envs ==
    {e \in [NODE_ENV : {"test", "production"},
            GOOGLE_API_KEY : {TestCredential, RealCredential},
            SMARTY_AUTH_ID : {TestCredential, RealCredential},
            SMARTY_AUTH_TOKEN : {TestCredential, RealCredential}] : EnvAccepted(e)}

-----------------------------------------------------------------------------
(* Adapters: GoogleService.validateAddress and SmartyService.validateAddress *)

GoogleConfigMessage ==
    <<"Google API key ", "not configured properly",
      ". Please set GOOGLE_API_KEY environment variable.">>

SmartyConfigMessage ==
    <<"Smarty API credentials ", "not configured properly",
      ". Please set SMARTY_AUTH_ID and SMARTY_AUTH_TOKEN environment variables.">>

GoogleNotConfigured(e) == startsWith(e.GOOGLE_API_KEY, "test-")

\* the body text of the response is left out
ApiErrorMessage_NoBody(name, reply) ==
    <<name \o " API error: ", reply.status, " ", reply.statusText>>

SmartyNotConfigured(e) ==
    /\ e.NODE_ENV # "test"
    /\ (startsWith(e.SMARTY_AUTH_ID, "test-") \/ startsWith(e.SMARTY_AUTH_TOKEN, "test-"))

ApiErrorMessage(name, reply) ==
    <<name \o " API error: ", reply.status, " ", reply.statusText, " - ">> \o reply.text

\* what the adapter's promise settles to once fetch has settled with reply:
\* [kind |-> "reject", message] is a transport failure,
\* [kind |-> "http", ok, status, statusText, text, json] an HTTP response
GoogleOnReply(reply) ==
    IF reply.kind = "reject" THEN Rejected(reply.message)
    ELSE IF ~reply.ok THEN Rejected(ApiErrorMessage("Google", reply))
    ELSE parseGoogleResponse(reply.json)

SmartyOnReply(reply, address) ==
    IF reply.kind = "reject" THEN Rejected(reply.message)
    ELSE IF ~reply.ok THEN Rejected(ApiErrorMessage("Smarty", reply))
    ELSE SmartyHandleData(reply.json, address)

-----------------------------------------------------------------------------
(* AddressService: the fallback orchestrator *)

\* req.body.provider as passed to the service (undefined when absent)
ProviderOf(body) == IF Has(body, "provider") THEN body.provider ELSE "undefined"

\* the fallback path starts with Smarty
FirstAdapter_SmartyFirst(provider) == IF provider = "google" THEN "google" ELSE "smarty"

\* validateAddress: the adapter invoked first
FirstAdapter(provider) == IF provider = "smarty" THEN "smarty" ELSE "google"

\* only "smarty" bypasses the fallback path
IsExplicit_GoogleFallsBack(provider) == provider = "smarty"

\* validateAddress: a named provider bypasses validateWithFallback
IsExplicit(provider) == provider = "google" \/ provider = "smarty"

validateWithGoogle(address, result) ==
    [input |-> address, standardized |-> result.standardized, status |-> result.status,
     corrections |-> result.corrections, provider |-> "google", warnings |-> result.warnings]

\* Smarty's data under Google's tag
validateWithSmarty_TaggedGoogle(address, result) ==
    [input |-> address, standardized |-> result.standardized, status |-> result.status,
     corrections |-> result.corrections, provider |-> "google", warnings |-> result.warnings]

validateWithSmarty(address, result) ==
    [input |-> address, standardized |-> result.standardized, status |-> result.status,
     corrections |-> result.corrections, provider |-> "smarty", warnings |-> result.warnings]

\* every status but VALID calls for a second opinion
NeedsSmarty_UnlessValid(response) == response.status # "VALID"

\* no second opinion is ever asked for
NeedsSmarty_Never(response) == FALSE

\* validateWithFallback: Google's answer calls for a second opinion
NeedsSmarty(response) == response.status = "UNVERIFIABLE"

\* Google's message is left out
BothFailedMessage_OnlySmarty(googleMessage, smartyMessage) ==
    <<"Both providers failed", " - Smarty: ">> \o smartyMessage

\* the two messages in the wrong places
BothFailedMessage_Swapped(googleMessage, smartyMessage) ==
    <<"Both providers failed", " - Google: ">> \o smartyMessage
        \o <<", Smarty: ">> \o googleMessage

BothFailedMessage(googleMessage, smartyMessage) ==
    <<"Both providers failed", " - Google: ">> \o googleMessage
        \o <<", Smarty: ">> \o smartyMessage

\* Smarty supersedes Google only when it verified the address
SecondOpinion_OnlyIfVerified(address, gResponse, sOutcome) ==
    IF sOutcome.kind = "ok" /\ sOutcome.value.status # "UNVERIFIABLE"
    THEN Resolved([input |-> address, standardized |-> sOutcome.value.standardized,
                   status |-> sOutcome.value.status, corrections |-> sOutcome.value.corrections,
                   provider |-> "smarty", warnings |-> sOutcome.value.warnings])
    ELSE Resolved(gResponse)

\* the error of the second opinion reaches the caller
SecondOpinion_Propagates(address, gResponse, sOutcome) ==
    IF sOutcome.kind = "ok"
    THEN Resolved([input |-> address, standardized |-> sOutcome.value.standardized,
                   status |-> sOutcome.value.status, corrections |-> sOutcome.value.corrections,
                   provider |-> "smarty", warnings |-> sOutcome.value.warnings])
    ELSE sOutcome

\* the catch block calls Google once more
CatchGoogle_Retries(gOutcome) == "google"

\* validateWithFallback: the catch block of the Google attempt goes on to
\* validateWithSmarty
CatchGoogle(gOutcome) == "smarty"

\* validateWithFallback once Google has succeeded with UNVERIFIABLE
\* and Smarty has settled
SecondOpinion(address, gResponse, sOutcome) ==
    IF sOutcome.kind = "ok"
    THEN Resolved(validateWithSmarty(address, sOutcome.value))
    ELSE Resolved(gResponse)

\* Google's error is thrown again whatever Smarty answered
AfterGoogleError_Rethrows(address, gOutcome, sOutcome) == gOutcome

\* validateWithFallback once Google has raised and Smarty has settled
AfterGoogleError(address, gOutcome, sOutcome) ==
    IF sOutcome.kind = "ok"
    THEN Resolved(validateWithSmarty(address, sOutcome.value))
    ELSE Rejected(BothFailedMessage(gOutcome.message, sOutcome.message))

\* validateAddress with provider "google" / "smarty": the adapter's outcome,
\* tagged, or its error
ExplicitGoogle(address, gOutcome) ==
    IF gOutcome.kind = "ok"
    THEN Resolved(validateWithGoogle(address, gOutcome.value))
    ELSE gOutcome

ExplicitSmarty(address, sOutcome) ==
    IF sOutcome.kind = "ok"
    THEN Resolved(validateWithSmarty(address, sOutcome.value))
    ELSE sOutcome

-----------------------------------------------------------------------------
(* HTTP layer: validateRequest middleware and AddressController *)

\* the address may be empty
SchemaAccepts_AllowsEmpty(body) ==
    /\ Has(body, "address")
    /\ Has(body, "provider") => body.provider \in {"google", "smarty"}

\* ValidateAddressRequestSchema: address is a string of at least one
\* character, provider is optional and one of the two identifiers
SchemaAccepts(body) ==
    /\ Has(body, "address") /\ Len(body.address) >= 1
    /\ Has(body, "provider") => body.provider \in {"google", "smarty"}

BadRequest == [status |-> 400, body |-> [error |-> "Invalid input"]]

\* the configuration error is not told apart from the other errors
ControllerResponse_MissesConfig(outcome) ==
    IF outcome.kind = "ok"
    THEN [status |-> 200, body |-> outcome.value]
    ELSE IF includes(outcome.message, <<"Both providers failed">>)
    THEN [status |-> 500,
          body |-> [error |-> "Unable to validate address", details |-> outcome.message]]
    ELSE [status |-> 500,
          body |-> [error |-> "An error occurred while validating the address",
                    details |-> outcome.message]]

\* AddressController.validateAddress once the service promise has settled
ControllerResponse(outcome) ==
    IF outcome.kind = "ok"
    THEN [status |-> 200, body |-> outcome.value]
    ELSE IF includes(outcome.message, <<"not configured properly">>)
    THEN [status |-> 503,
          body |-> [error |-> "Service temporarily unavailable", details |-> outcome.message]]
    ELSE IF includes(outcome.message, <<"Both providers failed">>)
    THEN [status |-> 500,
          body |-> [error |-> "Unable to validate address", details |-> outcome.message]]
    ELSE [status |-> 500,
          body |-> [error |-> "An error occurred while validating the address",
                    details |-> outcome.message]]

-----------------------------------------------------------------------------
(* Inputs *)

Address1 == <<"1", " ", "M", "a", "i", "n">>
Address2 == <<"9", " ", "E", "l", "m">>
Addresses == {Address1, Address2}

\* request bodies, valid and invalid
Bodies ==
    {a @@ p : a \in OptField("address", Addresses \cup {<<>>}),
              p \in OptField("provider", {"google", "smarty", "bing"})}

GoodVerdict ==
    [addressComplete |-> TRUE, hasUnconfirmedComponents |-> FALSE,
     hasInferredComponents |-> FALSE, hasReplacedComponents |-> FALSE,
     validationGranularity |-> "PREMISE"]

GoodPostal ==
    [regionCode |-> "US", locality |-> "Springfield",
     administrativeArea |-> "IL", postalCode |-> "62701"]

Component(type, text, level) ==
    [componentName |-> [text |-> text], componentType |-> type, confirmationLevel |-> level]

GoodComponents ==
    <<Component("street_number", "1", "CONFIRMED"), Component("route", "Main St", "CONFIRMED")>>

GooglePayload(verdict, postal, components) ==
    [result |-> [verdict |-> verdict,
                 address |-> [postalAddress |-> postal, addressComponents |-> components]]]

\* the Google payloads served to the orchestrator
GoogleSamples ==
    { GooglePayload(GoodVerdict, GoodPostal, GoodComponents),
      GooglePayload([GoodVerdict EXCEPT !.hasReplacedComponents = TRUE], GoodPostal, GoodComponents),
      GooglePayload([GoodVerdict EXCEPT !.addressComplete = FALSE], GoodPostal, GoodComponents),
      GooglePayload([GoodVerdict EXCEPT !.hasReplacedComponents = TRUE],
                    [GoodPostal EXCEPT !.regionCode = "CA"], GoodComponents),
      GooglePayload([GoodVerdict EXCEPT !.hasUnconfirmedComponents = TRUE], GoodPostal,
                    <<Component("street_number", "1", "UNCONFIRMED_AND_SUSPICIOUS")>>),
      [result |-> [verdict |-> GoodVerdict, address |-> [addressComponents |-> GoodComponents]]] }

TransportMessages == {<<"fetch failed">>, <<"socket hang up">>}

HttpErrors ==
    {[kind |-> "http", ok |-> FALSE, status |-> "403", statusText |-> "Forbidden",
      text |-> <<"permission denied">>]}

GoogleReplies ==
    {[kind |-> "reject", message |-> m] : m \in TransportMessages}
    \cup HttpErrors
    \cup {[kind |-> "http", ok |-> TRUE, json |-> j] : j \in GoogleSamples}

GoodCandidate ==
    [delivery_line_1 |-> <<"1", " ", "M", "a", "i", "n">>,
     components |-> [primary_number |-> "1", street_name |-> "Main", city_name |-> "Springfield",
                     state_abbreviation |-> "IL", zipcode |-> "62701", plus4_code |-> "1234"],
     metadata |-> [record_type |-> "S"],
     analysis |-> [dpv_match_code |-> "Y", dpv_vacant |-> "N"]]

SmartyJson(items) == [isNull |-> FALSE, items |-> items]

\* the Smarty result sets served to the orchestrator
SmartySamples ==
    { [isNull |-> TRUE],
      SmartyJson(<<>>),
      SmartyJson(<<GoodCandidate>>),
      SmartyJson(<<[GoodCandidate EXCEPT !.analysis.dpv_match_code = "N"], GoodCandidate>>),
      SmartyJson(<<[GoodCandidate EXCEPT !.analysis.dpv_match_code = "S",
                                         !.metadata.record_type = "P"]>>),
      SmartyJson(<<[delivery_line_1 |-> <<"1">>, components |-> EmptyObj,
                    metadata |-> EmptyObj]>>) }

SmartyReplies ==
    {[kind |-> "reject", message |-> m] : m \in TransportMessages}
    \cup HttpErrors
    \cup {[kind |-> "http", ok |-> TRUE, json |-> j] : j \in SmartySamples}

-----------------------------------------------------------------------------
(* One request through the HTTP layer, the orchestrator and the adapters *)

Requests == 1..MaxRequests

\* a call that has not been made yet
NotCalled == [pc |-> "idle", body |-> EmptyObj, g |-> None, s |-> None,
              gReply |-> None, sReply |-> None, result |-> None]

RequestInit ==
    /\ pc = "idle"
    /\ inflight = [r \in Requests |-> NotCalled]
    /\ req = EmptyObj
    /\ calls = <<>>
    /\ fetches = <<>>
    /\ replies = <<>>
    /\ googleOutcome = None
    /\ smartyOutcome = None
    /\ googleResponse = None
    /\ svc = None
    /\ http = None

ClassInit ==
    /\ raw = EmptyObj
    /\ original = <<>>
    /\ parsed = None

Init ==
    /\ env \in Envs
    /\ RequestInit
    /\ ClassInit

\* a request arrives at POST /validate-address
Receive(body) ==
    /\ pc = "idle"
    /\ req' = body
    /\ pc' = "middleware"
    /\ UNCHANGED <<env, replies, calls, fetches, googleOutcome, smartyOutcome, googleResponse, svc, http>>
    /\ UNCHANGED <<classVars, inflight>>

\* validateRequest(ValidateAddressRequestSchema)
validateRequest ==
    /\ pc = "middleware"
    /\ IF SchemaAccepts(req)
       THEN pc' = "controller" /\ http' = http
       ELSE pc' = "done" /\ http' = BadRequest
    /\ UNCHANGED <<env, replies, req, calls, fetches, googleOutcome, smartyOutcome, googleResponse, svc>>
    /\ UNCHANGED <<classVars, inflight>>

\* AddressController.validateAddress calls AddressService.validateAddress,
\* which selects the adapter to invoke first
ControllerCall ==
    /\ pc = "controller"
    /\ pc' = FirstAdapter(ProviderOf(req))
    /\ UNCHANGED <<env, replies, req, calls, fetches, googleOutcome, smartyOutcome, googleResponse, svc, http>>
    /\ UNCHANGED <<classVars, inflight>>

\* googleService.validateAddress up to the fetch
GoogleInvoke ==
    /\ pc = "google"
    /\ calls' = Append(calls, [adapter |-> "google", address |-> req.address])
    /\ IF GoogleNotConfigured(env)
       THEN /\ googleOutcome' = Rejected(GoogleConfigMessage)
            /\ pc' = "afterGoogle"
            /\ fetches' = fetches
       ELSE /\ fetches' = Append(fetches, "google")
            /\ pc' = "googleFetch"
            /\ googleOutcome' = googleOutcome
    /\ UNCHANGED <<env, replies, req, smartyOutcome, googleResponse, svc, http>>
    /\ UNCHANGED <<classVars, inflight>>

\* the Google fetch settles; the adapter parses or throws
GoogleSettle(reply) ==
    /\ pc = "googleFetch"
    /\ replies' = Append(replies, [adapter |-> "google", reply |-> reply])
    /\ googleOutcome' = GoogleOnReply(reply)
    /\ pc' = "afterGoogle"
    /\ UNCHANGED <<env, req, calls, fetches, smartyOutcome, googleResponse, svc, http>>
    /\ UNCHANGED <<classVars, inflight>>

\* the service resumes after await validateWithGoogle
AfterGoogle ==
    /\ pc = "afterGoogle"
    /\ IF IsExplicit(ProviderOf(req))
       THEN /\ svc' = ExplicitGoogle(req.address, googleOutcome)
            /\ pc' = "respond"
            /\ googleResponse' = googleResponse
       ELSE IF googleOutcome.kind = "ok"
       THEN LET response == validateWithGoogle(req.address, googleOutcome.value) IN
            /\ googleResponse' = Resolved(response)
            /\ IF NeedsSmarty(response)
               THEN pc' = "smarty" /\ svc' = svc
               ELSE pc' = "respond" /\ svc' = Resolved(response)
       ELSE /\ pc' = CatchGoogle(googleOutcome)
            /\ svc' = svc
            /\ googleResponse' = googleResponse
    /\ UNCHANGED <<env, replies, req, calls, fetches, googleOutcome, smartyOutcome, http>>
    /\ UNCHANGED <<classVars, inflight>>

\* smartyService.validateAddress up to the fetch
SmartyInvoke ==
    /\ pc = "smarty"
    /\ calls' = Append(calls, [adapter |-> "smarty", address |-> req.address])
    /\ IF SmartyNotConfigured(env)
       THEN /\ smartyOutcome' = Rejected(SmartyConfigMessage)
            /\ pc' = "afterSmarty"
            /\ fetches' = fetches
       ELSE /\ fetches' = Append(fetches, "smarty")
            /\ pc' = "smartyFetch"
            /\ smartyOutcome' = smartyOutcome
    /\ UNCHANGED <<env, replies, req, googleOutcome, googleResponse, svc, http>>
    /\ UNCHANGED <<classVars, inflight>>

\* the Smarty fetch settles; the adapter parses, short-circuits or throws
SmartySettle(reply) ==
    /\ pc = "smartyFetch"
    /\ replies' = Append(replies, [adapter |-> "smarty", reply |-> reply])
    /\ smartyOutcome' = SmartyOnReply(reply, req.address)
    /\ pc' = "afterSmarty"
    /\ UNCHANGED <<env, req, calls, fetches, googleOutcome, googleResponse, svc, http>>
    /\ UNCHANGED <<classVars, inflight>>

\* the service resumes after await validateWithSmarty
AfterSmarty ==
    /\ pc = "afterSmarty"
    /\ svc' = IF IsExplicit(ProviderOf(req))
              THEN ExplicitSmarty(req.address, smartyOutcome)
              ELSE IF googleOutcome.kind = "ok"
              THEN SecondOpinion(req.address, googleResponse.value, smartyOutcome)
              ELSE AfterGoogleError(req.address, googleOutcome, smartyOutcome)
    /\ pc' = "respond"
    /\ UNCHANGED <<env, replies, req, calls, fetches, googleOutcome, smartyOutcome, googleResponse, http>>
    /\ UNCHANGED <<classVars, inflight>>

\* the controller resumes after await addressService.validateAddress
ControllerRespond ==
    /\ pc = "respond"
    /\ http' = ControllerResponse(svc)
    /\ pc' = "done"
    /\ UNCHANGED <<env, replies, req, calls, fetches, googleOutcome, smartyOutcome, googleResponse, svc>>
    /\ UNCHANGED <<classVars, inflight>>

\* the response has been sent; the per-request objects are discarded
Finish ==
    /\ pc = "done"
    /\ pc' = "idle"
    /\ req' = EmptyObj
    /\ calls' = <<>>
    /\ fetches' = <<>>
    /\ replies' = <<>>
    /\ googleOutcome' = None
    /\ smartyOutcome' = None
    /\ googleResponse' = None
    /\ svc' = None
    /\ http' = None
    /\ UNCHANGED env
    /\ UNCHANGED <<classVars, inflight>>

Next ==
    \/ \E body \in Bodies : Receive(body)
    \/ validateRequest
    \/ ControllerCall
    \/ GoogleInvoke
    \/ \E reply \in GoogleReplies : GoogleSettle(reply)
    \/ AfterGoogle
    \/ SmartyInvoke
    \/ \E reply \in SmartyReplies : SmartySettle(reply)
    \/ AfterSmarty
    \/ ControllerRespond
    \/ Finish

Spec == Init /\ [][Next]_vars

-----------------------------------------------------------------------------
(* Classifier development for GoogleService.parseGoogleResponse *)

GoogleVerdicts ==
    {a @@ u @@ r @@ g :
        a \in OptField("addressComplete", BOOLEAN),
        u \in {"hasUnconfirmedComponents" :> b : b \in BOOLEAN},
        r \in {"hasReplacedComponents" :> b : b \in BOOLEAN},
        g \in OptField("validationGranularity", {"PREMISE", "OTHER", "GRANULARITY_UNSPECIFIED"})}

GooglePostalAddresses ==
    {rc @@ l @@ [administrativeArea |-> "IL", postalCode |-> "62701"] :
        rc \in OptField("regionCode", {"US", "CA", ""}),
        l \in OptField("locality", {"Springfield", ""})}

GoogleComponentSet ==
    {Component(t[1], t[2], level) :
        t \in {<<"street_number", "1">>, <<"route", "Main St">>},
        level \in {"CONFIRMED", "UNCONFIRMED_BUT_PLAUSIBLE", "UNCONFIRMED_AND_SUSPICIOUS"}}

\* payloads with every sub-object present
GoogleWellFormed ==
    {GooglePayload(v, p, c) :
        v \in GoogleVerdicts, p \in GooglePostalAddresses,
        c \in SeqsUpTo(GoogleComponentSet, MaxComponents)}

\* payloads with a sub-object missing
GoogleMalformed ==
    { EmptyObj,
      [result |-> EmptyObj],
      [result |-> [verdict |-> GoodVerdict]],
      [result |-> [address |-> [postalAddress |-> GoodPostal, addressComponents |-> GoodComponents]]],
      [result |-> [verdict |-> GoodVerdict, address |-> [addressComponents |-> GoodComponents]]],
      [result |-> [verdict |-> GoodVerdict, address |-> [postalAddress |-> GoodPostal]]] }

GooglePayloads == GoogleWellFormed \cup GoogleMalformed

InitGoogle ==
    /\ env \in {e \in Envs : e.NODE_ENV = "production"}
    /\ RequestInit
    /\ raw \in GooglePayloads
    /\ original = <<>>
    /\ parsed = None

\* GoogleService.parseGoogleResponse applied to the payload
ClassifyGoogle ==
    /\ parsed = None
    /\ parsed' = parseGoogleResponse(raw)
    /\ UNCHANGED <<raw, original>>
    /\ UNCHANGED <<orchVars, inflight>>

NextGoogle == ClassifyGoogle

SpecGoogle == InitGoogle /\ [][NextGoogle]_vars

-----------------------------------------------------------------------------
(* Classifier development for SmartyService: the handling of the result set *)
(* and parseSmartyResponse                                                   *)

SmartyAnalyses ==
    {m @@ e @@ v :
        m \in OptField("dpv_match_code", {"Y", "N", "S", "D"}),
        e \in OptField("enhanced_match", {"postal-match"}),
        v \in {"dpv_vacant" :> x : x \in {"Y", "N"}}}

SmartyMetadatas == OptField("record_type", {"S", "H", "P"})

\* a delivery line longer than the compared prefix, and an input that holds
\* its first 22 characters in another case
LongDeliveryLine ==
    <<"1", "2", "3", "4", " ", "N", "o", "r", "t", "h", " ", "M", "a", "i", "n", " ",
      "S", "t", "r", "e", "e", "t", " ", "N", "W">>

LongAddress ==
    <<"1", "2", "3", "4", " ", "N", "O", "R", "T", "H", " ", "M", "A", "I", "N", " ",
      "S", "T", "R", "E", "E", "T">>

SmartyDeliveryLines ==
    {<<"1", " ", "M", "a", "i", "n">>, <<"1", " ", "M", "A", "I", "N", " ", "S", "T">>,
     LongDeliveryLine}

SmartyOriginals == Addresses \cup {LongAddress}

SmartyComponentSets ==
    {z @@ p @@ n @@ d @@ [primary_number |-> "1", street_suffix |-> "St",
                          city_name |-> "Springfield", state_abbreviation |-> "IL"] :
        z \in OptField("zipcode", {"62701", ""}),
        p \in OptField("plus4_code", {"1234", ""}),
        n \in OptField("street_name", {"Main"}),
        d \in OptField("street_predirection", {"N"})}

\* candidates with every sub-object present
SmartyWellFormed ==
    {[delivery_line_1 |-> l, components |-> c, metadata |-> m, analysis |-> a] :
        l \in SmartyDeliveryLines, c \in SmartyComponentSets,
        m \in SmartyMetadatas, a \in SmartyAnalyses}

\* candidates with a sub-object missing
SmartyMalformed ==
    { [delivery_line_1 |-> GoodCandidate.delivery_line_1, components |-> GoodCandidate.components,
       metadata |-> GoodCandidate.metadata],
      [delivery_line_1 |-> GoodCandidate.delivery_line_1, components |-> GoodCandidate.components,
       analysis |-> GoodCandidate.analysis],
      [components |-> GoodCandidate.components, metadata |-> GoodCandidate.metadata,
       analysis |-> GoodCandidate.analysis],
      [delivery_line_1 |-> GoodCandidate.delivery_line_1, metadata |-> GoodCandidate.metadata,
       analysis |-> GoodCandidate.analysis] }

\* the candidates that follow the first one in a result set
SmartyFollowers ==
    {GoodCandidate, [GoodCandidate EXCEPT !.analysis.dpv_match_code = "N"]}

SmartyResultSets ==
    {[isNull |-> TRUE], SmartyJson(<<>>)}
    \cup {SmartyJson(<<c>> \o t) :
            c \in SmartyWellFormed \cup SmartyMalformed,
            t \in SeqsUpTo(SmartyFollowers, MaxCandidates - 1)}

InitSmarty ==
    /\ env \in {e \in Envs : e.NODE_ENV = "production"}
    /\ RequestInit
    /\ raw \in SmartyResultSets
    /\ original \in SmartyOriginals
    /\ parsed = None

\* SmartyService.validateAddress from response.json() on: the short-circuit
\* on an empty result set, else parseSmartyResponse on the first candidate
ClassifySmarty ==
    /\ parsed = None
    /\ parsed' = SmartyHandleData(raw, original)
    /\ UNCHANGED <<raw, original>>
    /\ UNCHANGED <<orchVars, inflight>>

NextSmarty == ClassifySmarty

SpecSmarty == InitSmarty /\ [][NextSmarty]_vars

-----------------------------------------------------------------------------
(* Properties of the orchestrator *)

\* the request passed validation and names no provider
Automatic == SchemaAccepts(req) /\ ~Has(req, "provider")

\* the request passed validation and names provider p
Named(p) == SchemaAccepts(req) /\ Has(req, "provider") /\ req.provider = p

Settled == svc.kind # "none"

CallsTo(a) == {i \in DOMAIN calls : calls[i].adapter = a}

OutcomeOf(a) == IF a = "google" THEN googleOutcome ELSE smartyOutcome

Other(a) == IF a = "google" THEN "smarty" ELSE "google"

\* response carries exactly the data of the adapter result, under tag p
Carries(response, p, result) ==
    /\ response.provider = p
    /\ response.input = req.address
    /\ response.status = result.status
    /\ response.standardized = result.standardized
    /\ response.corrections = result.corrections
    /\ response.warnings = result.warnings

GoogleSaid(statuses) ==
    googleOutcome.kind = "ok" /\ googleOutcome.value.status \in statuses

\* C1: with a named provider only that adapter is invoked, once and with the
\* caller's address, the other adapter never; the call settles with that
\* adapter's outcome under that provider's tag, or with that adapter's error.
C1_ExplicitProvider ==
    \A p \in {"google", "smarty"} :
        Named(p) =>
            /\ CallsTo(Other(p)) = {}
            /\ OutcomeOf(Other(p)) = None
            /\ Len(calls) <= 1
            /\ \A i \in DOMAIN calls : calls[i].address = req.address
            /\ Settled =>
                /\ Len(calls) = 1
                /\ IF OutcomeOf(p).kind = "ok"
                   THEN svc.kind = "ok" /\ Carries(svc.value, p, OutcomeOf(p).value)
                   ELSE svc = OutcomeOf(p)

C1_Witness ==
    /\ pc = "done" /\ Named("google")
    /\ googleOutcome.kind = "err" /\ svc.kind = "err" /\ Len(calls) = 1

\* C2: in automatic mode, when Google succeeds with VALID or CORRECTED,
\* Smarty is never invoked in that request and the result is Google's
\* outcome tagged "google".
C2_FallbackMonotonicity ==
    (Automatic /\ GoogleSaid({"VALID", "CORRECTED"})) =>
        /\ CallsTo("smarty") = {}
        /\ smartyOutcome = None
        /\ ~("smarty" \in Range(fetches))
        /\ pc \in {"afterGoogle", "respond", "done"}
        /\ Settled => svc.kind = "ok" /\ Carries(svc.value, "google", googleOutcome.value)

C2_Witness ==
    /\ pc = "done" /\ Automatic /\ GoogleSaid({"CORRECTED"})
    /\ svc.kind = "ok" /\ svc.value.provider = "google"

\* C3: in automatic mode, when Google succeeds with UNVERIFIABLE, Smarty is
\* invoked with the same address; if Smarty succeeds the result is Smarty's
\* outcome tagged "smarty", whatever its status, and nothing of Google's.
C3_SmartySupersedes ==
    (Automatic /\ GoogleSaid({"UNVERIFIABLE"})) =>
        /\ pc \in {"afterGoogle", "smarty", "smartyFetch", "afterSmarty", "respond", "done"}
        /\ pc \in {"smartyFetch", "afterSmarty", "respond", "done"} =>
              calls = <<[adapter |-> "google", address |-> req.address],
                        [adapter |-> "smarty", address |-> req.address]>>
        /\ (Settled /\ smartyOutcome.kind = "ok") =>
              svc.kind = "ok" /\ Carries(svc.value, "smarty", smartyOutcome.value)

C3_Witness ==
    /\ pc = "done" /\ Automatic /\ GoogleSaid({"UNVERIFIABLE"})
    /\ smartyOutcome.kind = "ok" /\ smartyOutcome.value.status = "UNVERIFIABLE"
    /\ svc.kind = "ok" /\ svc.value.provider = "smarty"
    /\ svc.value.warnings # googleOutcome.value.warnings

\* C4: in automatic mode, when Google succeeds with UNVERIFIABLE and Smarty
\* then raises, the call does not fail: it resolves with Google's
\* UNVERIFIABLE outcome unchanged, tagged "google".
C4_GracefulDegradation ==
    (Automatic /\ GoogleSaid({"UNVERIFIABLE"}) /\ smartyOutcome.kind = "err" /\ Settled) =>
        /\ svc.kind = "ok"
        /\ svc.value.status = "UNVERIFIABLE"
        /\ Carries(svc.value, "google", googleOutcome.value)

C4_Witness ==
    /\ pc = "done" /\ Automatic /\ GoogleSaid({"UNVERIFIABLE"})
    /\ smartyOutcome.kind = "err" /\ svc.kind = "ok" /\ http.status = 200

\* C5: in automatic mode, when Google raises any error, Smarty is invoked
\* exactly once with the same address, and if it succeeds the result is
\* Smarty's outcome tagged "smarty".
C5_FallbackOnError ==
    (Automatic /\ googleOutcome.kind = "err") =>
        /\ Cardinality(CallsTo("smarty")) <= 1
        /\ pc \in {"smartyFetch", "afterSmarty", "respond", "done"} =>
              calls = <<[adapter |-> "google", address |-> req.address],
                        [adapter |-> "smarty", address |-> req.address]>>
        /\ pc \in {"afterGoogle", "smarty", "smartyFetch", "afterSmarty", "respond", "done"}
        /\ (Settled /\ smartyOutcome.kind = "ok") =>
              svc.kind = "ok" /\ Carries(svc.value, "smarty", smartyOutcome.value)

C5_Witness ==
    /\ pc = "done" /\ Automatic
    /\ googleOutcome = Rejected(GoogleConfigMessage)
    /\ smartyOutcome.kind = "ok" /\ svc.kind = "ok" /\ svc.value.provider = "smarty"

\* C6: in automatic mode the call fails exactly when both adapters raised,
\* Google first and Smarty second; the error message is
\* "Both providers failed - Google: <Google message>, Smarty: <Smarty message>".
C6_BothFailed ==
    (Automatic /\ Settled) =>
        /\ svc.kind = "err" <=> (googleOutcome.kind = "err" /\ smartyOutcome.kind = "err")
        /\ svc.kind = "err" =>
              /\ calls = <<[adapter |-> "google", address |-> req.address],
                           [adapter |-> "smarty", address |-> req.address]>>
              /\ svc.message = <<"Both providers failed", " - Google: ">>
                                   \o googleOutcome.message
                                   \o <<", Smarty: ">>
                                   \o smartyOutcome.message

C6_Witness ==
    /\ pc = "done" /\ Automatic /\ svc.kind = "err"
    /\ googleOutcome.kind = "err" /\ smartyOutcome.kind = "err"
    /\ googleOutcome.message # smartyOutcome.message

\* C7: every resolved call carries the tag of the adapter whose result
\* supplied its status, standardized address, corrections and warnings, and
\* its input is the address the caller passed.
C7_ProviderTag ==
    svc.kind = "ok" =>
        /\ svc.value.input = req.address
        /\ svc.value.provider \in {"google", "smarty"}
        /\ OutcomeOf(svc.value.provider).kind = "ok"
        /\ Carries(svc.value, svc.value.provider, OutcomeOf(svc.value.provider).value)

C7_Witness ==
    /\ pc = "done" /\ svc.kind = "ok" /\ svc.value.provider = "smarty"
    /\ googleOutcome.kind = "ok" /\ smartyOutcome.kind = "ok"
    /\ googleOutcome.value # smartyOutcome.value

-----------------------------------------------------------------------------
(* Properties of the Google classifier *)

Classified == parsed.kind = "ok"

RawVerdict == raw.result.verdict
RawPostal == raw.result.address.postalAddress
RawComponents == raw.result.address.addressComponents

\* the conditions of the five rules, read off the payload
NonUS == TruthyStr(RawPostal, "regionCode") /\ RawPostal.regionCode # "US"
Incomplete == ~TruthyBool(RawVerdict, "addressComplete")
Replaced == TruthyBool(RawVerdict, "hasReplacedComponents")
Unconfirmed == TruthyBool(RawVerdict, "hasUnconfirmedComponents")
Suspicious ==
    /\ Unconfirmed
    /\ \E i \in DOMAIN RawComponents :
           RawComponents[i].confirmationLevel = "UNCONFIRMED_AND_SUSPICIOUS"
Plausible == Unconfirmed /\ ~Suspicious
Insufficient ==
    /\ Has(RawVerdict, "validationGranularity")
    /\ RawVerdict.validationGranularity \in {"OTHER", "GRANULARITY_UNSPECIFIED"}

MostSevereTriggered ==
    IF NonUS \/ Incomplete \/ Suspicious \/ Insufficient THEN "UNVERIFIABLE"
    ELSE IF Replaced \/ Plausible THEN "CORRECTED"
    ELSE "VALID"

\* C8: the final status of a Google response is the most severe status among
\* the rules that triggered; a status of UNVERIFIABLE set by the non-US or the
\* incomplete rule is never lowered to CORRECTED by a later rule.
C8_MostSevereStatus ==
    Classified => parsed.value.status = MostSevereTriggered

\* C9: a Google response whose region code is present and not "US" is
\* UNVERIFIABLE and carries the non-US warning, whatever the other fields.
C9_NonUSUnverifiable ==
    (Classified /\ NonUS) =>
        /\ parsed.value.status = "UNVERIFIABLE"
        /\ NonUSWarning(RawPostal.regionCode) \in Range(parsed.value.warnings)

Clean ==
    /\ Classified
    /\ TruthyBool(RawVerdict, "addressComplete")
    /\ ~Unconfirmed
    /\ ~Replaced
    /\ Has(RawPostal, "regionCode") /\ RawPostal.regionCode = "US"

IsValidAndSilent ==
    /\ parsed.value.status = "VALID"
    /\ parsed.value.corrections = <<>>
    /\ parsed.value.warnings = <<>>

\* C10 as stated: a complete US response with no unconfirmed and no replaced
\* components is VALID with empty corrections and warnings for every
\* validation granularity.
C10_ValidForEveryGranularity == Clean => IsValidAndSilent

\* C10: a complete US response with no unconfirmed and no replaced components
\* whose validation granularity is neither OTHER nor GRANULARITY_UNSPECIFIED
\* is VALID with empty corrections and warnings.
C10_ValidWhenClean == (Clean /\ ~Insufficient) => IsValidAndSilent

C10_Witness ==
    /\ Clean /\ ~Insufficient /\ IsValidAndSilent
    /\ Has(RawVerdict, "validationGranularity")
    /\ RawVerdict.validationGranularity = "PREMISE"
    /\ \E i \in DOMAIN RawComponents :
           RawComponents[i].confirmationLevel = "UNCONFIRMED_AND_SUSPICIOUS"

-----------------------------------------------------------------------------
(* Properties of the Smarty classifier *)

HasCandidate == ~raw.isNull /\ Len(raw.items) > 0
FirstCandidate == raw.items[1]

USPSWarning == "Address could not be confirmed by USPS"

\* C11: a Smarty candidate with dpv_match_code "N" is UNVERIFIABLE and carries
\* the warning "Address could not be confirmed by USPS", whatever its other
\* fields are.
C11_NoMatchCodeUnverifiable ==
    (Classified /\ HasCandidate
        /\ Has(FirstCandidate.analysis, "dpv_match_code")
        /\ FirstCandidate.analysis.dpv_match_code = "N") =>
        /\ parsed.value.status = "UNVERIFIABLE"
        /\ USPSWarning \in Range(parsed.value.warnings)

\* C12: an empty or null Smarty result set gives exactly UNVERIFIABLE, an
\* empty standardized address, no corrections and the single warning
\* "No matching address found", with no candidate classified; otherwise the
\* outcome is the classification of the first candidate alone.
C12_NoMatchShortCircuit ==
    parsed # None =>
        IF raw.isNull \/ Len(raw.items) = 0
        THEN parsed = [kind |-> "ok",
                       value |-> [standardized |-> EmptyObj, status |-> "UNVERIFIABLE",
                                  corrections |-> <<>>,
                                  warnings |-> <<"No matching address found">>]]
        ELSE parsed = parseSmartyResponse(raw.items[1], original)

C12_Witness ==
    /\ Classified /\ HasCandidate /\ Len(raw.items) = 2
    /\ parsed.value.status = "VALID"
    /\ parseSmartyResponse(raw.items[2], original).value.status = "UNVERIFIABLE"

\* C20: the standardized zip of a Smarty candidate is the zipcode alone when
\* there is no plus-4 code and "<zipcode>-<plus4>" when both are there; with
\* no zipcode there is no zip, plus-4 code or not.
C20_SmartyZip ==
    (Classified /\ HasCandidate) =>
        LET c == FirstCandidate.components
            std == parsed.value.standardized
        IN  /\ (TruthyStr(c, "zipcode") /\ TruthyStr(c, "plus4_code")) =>
                   Has(std, "zip") /\ std.zip = c.zipcode \o "-" \o c.plus4_code
            /\ (Has(c, "zipcode") /\ ~TruthyStr(c, "plus4_code")) =>
                   Has(std, "zip") /\ std.zip = c.zipcode
            /\ ~Has(c, "zipcode") => ~Has(std, "zip")
            /\ ~TruthyStr(c, "zipcode") => ~(Has(std, "zip") /\ std.zip # "")

C20_Witness ==
    /\ Classified /\ HasCandidate
    /\ ~Has(FirstCandidate.components, "zipcode")
    /\ TruthyStr(FirstCandidate.components, "plus4_code")
    /\ ~Has(parsed.value.standardized, "zip")

-----------------------------------------------------------------------------
(* More properties of the Google classifier *)

PlausibleWarning == "Address contains unconfirmed but plausible components"

\* C13: when hasUnconfirmedComponents is true and some component is
\* UNCONFIRMED_AND_SUSPICIOUS, alone or next to UNCONFIRMED_BUT_PLAUSIBLE ones,
\* the status is UNVERIFIABLE and the "unconfirmed but plausible" warning is
\* not emitted.
C13_SuspiciousWins ==
    (Classified /\ Suspicious) =>
        /\ parsed.value.status = "UNVERIFIABLE"
        /\ ~(PlausibleWarning \in Range(parsed.value.warnings))

C13_Witness ==
    /\ Classified /\ Suspicious /\ Replaced
    /\ \E i \in DOMAIN RawComponents :
           RawComponents[i].confirmationLevel = "UNCONFIRMED_BUT_PLAUSIBLE"
    /\ parsed.value.status = "UNVERIFIABLE"

\* C17: the parse step never throws: a payload with any subset of its fields
\* absent still yields an outcome, the unresolved fields being absent.
C17_ParseNeverThrows ==
    parsed # None => parsed.kind = "ok"

-----------------------------------------------------------------------------
(* Properties of the HTTP layer and of the adapters' network use *)

Responded == http # None

ConfigMessages == {GoogleConfigMessage, SmartyConfigMessage}

RaisedConfigError(a) ==
    OutcomeOf(a).kind = "err" /\ OutcomeOf(a).message \in ConfigMessages

BothRaised == googleOutcome.kind = "err" /\ smartyOutcome.kind = "err"

\* C14: when both adapters raised in automatic mode the HTTP status is 500,
\* whatever the two failures were; any other error that is not a
\* configuration error gives 500 too, and success gives 200 with the outcome
\* as the body.
C14_ExhaustedIs500 ==
    (Responded /\ Settled) =>
        /\ (Automatic /\ BothRaised) => http.status = 500
        /\ (svc.kind = "err" /\ ~(\E a \in {"google", "smarty"} : RaisedConfigError(a))) =>
               http.status = 500
        /\ svc.kind = "ok" => http.status = 200 /\ http.body = svc.value

\* C15 as stated: a request in which an invoked adapter raised the
\* credentials-not-configured error is answered with 503, and that adapter is
\* invoked once only.
C15_ConfigErrorAlways503 ==
    \A a \in {"google", "smarty"} :
        (Responded /\ RaisedConfigError(a)) =>
            /\ http.status = 503
            /\ Cardinality(CallsTo(a)) = 1

\* C15: a request that names a provider whose adapter raised the
\* credentials-not-configured error is answered with 503; in every request an
\* adapter that raised that error is invoked once only, and issues no
\* network call.
C15_NamedConfigError503 ==
    \A a \in {"google", "smarty"} :
        /\ (Responded /\ Named(a) /\ RaisedConfigError(a)) =>
               /\ http.status = 503
               /\ http.body.details = OutcomeOf(a).message
        /\ RaisedConfigError(a) =>
               /\ Cardinality(CallsTo(a)) = 1
               /\ ~(a \in Range(fetches))

C15_Witness ==
    /\ pc = "done" /\ Named("google") /\ RaisedConfigError("google")
    /\ http.status = 503

\* the body is one the schema of the endpoint admits
Admissible(body) ==
    /\ "address" \in DOMAIN body
    /\ body.address # <<>>
    /\ "provider" \in DOMAIN body => body.provider \in {"google", "smarty"}

\* C16: a request with a missing or empty address, or with a provider that is
\* neither "google" nor "smarty", is answered with 400 by the request
\* validator, the controller is not reached and no adapter is invoked; a
\* request that passes validation reaches the controller, once.
C16_RequestValidation ==
    /\ []((pc \notin {"idle", "middleware"} /\ ~Admissible(req)) =>
            /\ pc = "done"
            /\ http.status = 400
            /\ calls = <<>> /\ fetches = <<>> /\ svc = None)
    /\ [][(pc = "middleware" /\ Admissible(req)) => pc' = "controller" /\ http' = None]_vars
    /\ [][pc' = "controller" => pc = "middleware" /\ Admissible(req)]_vars
    /\ [][pc' = "middleware" => pc = "idle"]_vars

C16_Witness ==
    /\ pc = "done" /\ Has(req, "address") /\ req.address # <<>>
    /\ Has(req, "provider") /\ req.provider = "bing"
    /\ http.status = 400 /\ calls = <<>>

FetchesTo(a) == {i \in DOMAIN fetches : fetches[i] = a}
RepliesTo(a) == {i \in DOMAIN replies : replies[i].adapter = a}

-----------------------------------------------------------------------------
(* More properties of the Smarty classifier *)

FormatCorrection == "Address format was standardized"

\* the status after the match-code and the enhanced-match rules
StatusBeforeFormatRule ==
    LET a == FirstCandidate.analysis IN
    IF Has(a, "enhanced_match") /\ a.enhanced_match # "" THEN "CORRECTED"
    ELSE IF Has(a, "dpv_match_code") /\ a.dpv_match_code = "N" THEN "UNVERIFIABLE"
    ELSE IF Has(a, "dpv_match_code") /\ a.dpv_match_code \in {"S", "D"} THEN "CORRECTED"
    ELSE "VALID"

\* the first min(20, length) characters of the lower-cased delivery line
\* occur in the lower-cased input
PrefixOccurs ==
    LET line == toLowerCase(FirstCandidate.delivery_line_1)
        input == toLowerCase(original)
        n == IF Len(line) < 20 THEN Len(line) ELSE 20
    IN  \E i \in 0..Len(input) :
            /\ i + n <= Len(input)
            /\ \A k \in 1..n : input[i + k] = line[k]

\* C22: the correction "Address format was standardized" is added, and the
\* status becomes CORRECTED, exactly when the status is still VALID after the
\* match-code and enhanced-match rules and the first min(20, length)
\* characters of the lower-cased delivery line do not occur in the lower-cased
\* input; otherwise the rule changes neither status nor corrections.
C22_FormatRule ==
    (Classified /\ HasCandidate) =>
        LET fires == StatusBeforeFormatRule = "VALID" /\ ~PrefixOccurs IN
        /\ (FormatCorrection \in Range(parsed.value.corrections)) <=> fires
        /\ parsed.value.status = (IF fires THEN "CORRECTED" ELSE StatusBeforeFormatRule)
        /\ fires => parsed.value.corrections = <<FormatCorrection>>
        /\ ~fires => parsed.value.corrections =
                        (IF TruthyStr(FirstCandidate.analysis, "enhanced_match")
                         THEN <<"Address was enhanced or corrected">> ELSE <<>>)

C22_Witness ==
    /\ Classified /\ HasCandidate
    /\ FirstCandidate.delivery_line_1 = LongDeliveryLine
    /\ original = LongAddress
    /\ parsed.value.status = "VALID"
    /\ parsed.value.corrections = <<>>

\* the first candidate with dpv_vacant and record_type set to values that
\* trigger no warning
WithoutVacancyAndType ==
    [FirstCandidate EXCEPT !.analysis = [dpv_vacant |-> "N"] @@ FirstCandidate.analysis,
                           !.metadata = [record_type |-> "S"]]

ExpectedTrailingWarnings ==
    (IF Has(FirstCandidate.analysis, "dpv_vacant") /\ FirstCandidate.analysis.dpv_vacant = "Y"
     THEN <<"Address is marked as vacant">> ELSE <<>>)
    \o (IF Has(FirstCandidate.metadata, "record_type")
        THEN IF FirstCandidate.metadata.record_type \in {"S", "H"} THEN <<>>
             ELSE <<"Address record type is " \o FirstCandidate.metadata.record_type>>
        ELSE <<"Address record type is undefined">>)

\* C23: dpv_vacant = "Y" appends only the warning "Address is marked as
\* vacant" and a record_type outside {"S", "H"} only the warning "Address
\* record type is <value>": candidates that differ only in dpv_vacant and
\* record_type have the same status, corrections and standardized address.
C23_VacantAndTypeFrame ==
    (Classified /\ HasCandidate) =>
        LET plain == parseSmartyResponse(WithoutVacancyAndType, original).value IN
        /\ parsed.value.status = plain.status
        /\ parsed.value.corrections = plain.corrections
        /\ parsed.value.standardized = plain.standardized
        /\ parsed.value.warnings = plain.warnings \o ExpectedTrailingWarnings

C23_Witness ==
    /\ Classified /\ HasCandidate
    /\ FirstCandidate.analysis.dpv_vacant = "Y"
    /\ Has(FirstCandidate.metadata, "record_type") /\ FirstCandidate.metadata.record_type = "P"
    /\ parsed.value.status = "VALID"
    /\ parsed.value.warnings = <<"Address is marked as vacant", "Address record type is P">>

-----------------------------------------------------------------------------
(* More properties of the orchestrator *)

Outstanding == Len(fetches) - Len(replies)

\* C21: in an automatic-mode request Smarty is called only once the Google
\* call has completed with an outcome or an error; no two provider calls of
\* one request are outstanding at once; Google is never called after Smarty.
C21_SequentialFallback ==
    /\ Outstanding \in {0, 1}
    /\ Outstanding = 1 <=> pc \in {"googleFetch", "smartyFetch"}
    /\ Automatic =>
          \A j \in CallsTo("smarty") :
              /\ googleOutcome # None
              /\ j = 2 /\ calls[1].adapter = "google"
              /\ Cardinality(FetchesTo("google")) = Cardinality(RepliesTo("google"))
    /\ \A i \in CallsTo("google") : \A j \in CallsTo("smarty") : i < j

C21_Witness ==
    /\ Automatic /\ pc = "smartyFetch"
    /\ fetches = <<"google", "smarty">>
    /\ Len(replies) = 1 /\ replies[1].adapter = "google"
    /\ googleOutcome.kind = "ok"

Raised(a) == OutcomeOf(a).kind = "err"

GracefulDegradation ==
    Automatic /\ GoogleSaid({"UNVERIFIABLE"}) /\ Raised("smarty")

FallbackSucceeded == Automatic /\ Raised("google") /\ smartyOutcome.kind = "ok"

\* C26 as stated: a call that resolves although an adapter raised is the
\* graceful degradation (automatic mode, Google UNVERIFIABLE, Smarty raised);
\* in every other case the caller gets an error carrying the adapter's message.
C26_OnlyGracefulDegradation ==
    (Settled /\ (Raised("google") \/ Raised("smarty"))) =>
        IF svc.kind = "ok"
        THEN GracefulDegradation
        ELSE \A a \in {"google", "smarty"} :
                 Raised(a) => includes(svc.message, OutcomeOf(a).message)

\* C26, amended: a call that resolves although an adapter raised is an
\* automatic-mode call in which either Google answered UNVERIFIABLE and Smarty
\* raised, or Google raised and Smarty succeeded; in every other case the
\* caller gets an error carrying the message of each adapter that raised.
C26_SwallowedOnlyOnFallback ==
    (Settled /\ (Raised("google") \/ Raised("smarty"))) =>
        IF svc.kind = "ok"
        THEN GracefulDegradation \/ FallbackSucceeded
        ELSE /\ ~GracefulDegradation /\ ~FallbackSucceeded
             /\ \A a \in {"google", "smarty"} :
                    Raised(a) => includes(svc.message, OutcomeOf(a).message)

C26_Witness ==
    /\ pc = "done" /\ Automatic
    /\ googleOutcome = Rejected(<<"fetch failed">>)
    /\ smartyOutcome.kind = "ok"
    /\ svc.kind = "ok" /\ svc.value.provider = "smarty" /\ http.status = 200

\* C30: in automatic mode an outcome tagged "google" with status UNVERIFIABLE
\* is returned only if Smarty was invoked and raised; whenever Smarty succeeds
\* its outcome is the one returned; an outcome tagged "smarty" implies that
\* Google raised or answered UNVERIFIABLE.
C30_GoogleUnverifiableOnlyAfterSmartyError ==
    (Automatic /\ Settled) =>
        /\ (svc.kind = "ok" /\ svc.value.provider = "google"
                /\ svc.value.status = "UNVERIFIABLE") =>
              /\ Cardinality(CallsTo("smarty")) = 1
              /\ Raised("smarty")
        /\ smartyOutcome.kind = "ok" =>
              svc.kind = "ok" /\ Carries(svc.value, "smarty", smartyOutcome.value)
        /\ (svc.kind = "ok" /\ svc.value.provider = "smarty") =>
              Raised("google") \/ GoogleSaid({"UNVERIFIABLE"})

C30_Witness ==
    /\ Automatic /\ pc = "respond"
    /\ svc.kind = "ok" /\ svc.value.provider = "google"
    /\ svc.value.status = "UNVERIFIABLE"
    /\ Len(calls) = 2 /\ Raised("smarty")

-----------------------------------------------------------------------------
(* Termination: every continuation that is ready runs, and every network
   call that was issued completes *)

Fairness ==
    /\ WF_vars(validateRequest)
    /\ WF_vars(ControllerCall)
    /\ WF_vars(GoogleInvoke)
    /\ WF_vars(\E reply \in GoogleReplies : GoogleSettle(reply))
    /\ WF_vars(AfterGoogle)
    /\ WF_vars(SmartyInvoke)
    /\ WF_vars(\E reply \in SmartyReplies : SmartySettle(reply))
    /\ WF_vars(AfterSmarty)
    /\ WF_vars(ControllerRespond)

SpecLive == Init /\ [][Next]_vars /\ Fairness

InService == pc \in {"google", "googleFetch", "afterGoogle", "smarty", "smartyFetch", "afterSmarty"}

WaitEndsByCompletion ==
    pc \in {"googleFetch", "smartyFetch"} =>
        (Len(replies') = Len(replies) + 1 /\ svc = None)

\* C29: if every network call completes, every validateAddress call settles,
\* after at most two adapter invocations, at most one per provider and one
\* network call each (no retry); nothing but the completion of the network
\* call ends the wait for it.
C29_BoundedTermination ==
    /\ [](/\ Len(calls) <= 2
          /\ \A a \in {"google", "smarty"} :
                 Cardinality(CallsTo(a)) <= 1 /\ Cardinality(FetchesTo(a)) <= 1)
    /\ InService ~> Settled
    /\ [][WaitEndsByCompletion]_vars

C29_Witness ==
    /\ pc = "respond" /\ Automatic
    /\ Len(calls) = 2 /\ Len(fetches) = 2 /\ Len(replies) = 2
    /\ svc.kind = "err"

-----------------------------------------------------------------------------
(* The outcomes of both classifiers and of the orchestrator in one
   development: a payload of either provider is classified, or requests are
   served *)

FromSmarty == Has(raw, "isNull")
FromGoogle == ~Has(raw, "isNull") /\ raw # EmptyObj

InitOutcomes == Init \/ InitGoogle \/ InitSmarty

ServeRequests == raw = EmptyObj /\ Next

ClassifyPayload ==
    \/ FromGoogle /\ ClassifyGoogle
    \/ FromSmarty /\ ClassifySmarty

NextOutcomes == ServeRequests \/ ClassifyPayload

SpecOutcomes == InitOutcomes /\ [][NextOutcomes]_vars

\* the place of a message in the order of the rules, 0 for an unknown message
GoogleWarningRank(w) ==
    IF w \in {NonUSWarning(rc) : rc \in {"CA"}} THEN 1
    ELSE IF w = "Address is incomplete" THEN 2
    ELSE IF w \in {"Address contains suspicious components", PlausibleWarning} THEN 3
    ELSE IF w = "Address validation granularity is insufficient" THEN 4
    ELSE 0

SmartyWarningRank(w) ==
    IF w \in {USPSWarning, "Address is missing secondary information (apt, suite, etc.)",
              "No matching address found"} THEN 1
    ELSE IF w = "Address is marked as vacant" THEN 2
    ELSE IF w \in {"Address record type is " \o t : t \in {"P", "undefined"}} THEN 3
    ELSE 0

GoogleCorrectionRank(c) ==
    IF c = "Address components were corrected or replaced" THEN 1 ELSE 0

SmartyCorrectionRank(c) ==
    IF c = "Address was enhanced or corrected" THEN 1
    ELSE IF c = FormatCorrection THEN 2
    ELSE 0

InRuleOrder(list, Rank(_)) ==
    /\ \A i \in DOMAIN list : Rank(list[i]) > 0
    /\ \A i, j \in DOMAIN list : i < j => Rank(list[i]) < Rank(list[j])

GoogleOrdered(outcome) ==
    /\ InRuleOrder(outcome.warnings, GoogleWarningRank)
    /\ InRuleOrder(outcome.corrections, GoogleCorrectionRank)

SmartyOrdered(outcome) ==
    /\ InRuleOrder(outcome.warnings, SmartyWarningRank)
    /\ InRuleOrder(outcome.corrections, SmartyCorrectionRank)

\* C24: the warnings of a Google outcome stand in the order non-US,
\* incomplete, suspicious or plausible, insufficient granularity, those of a
\* Smarty outcome in the order USPS-unconfirmed or missing-secondary, vacant,
\* record type, corrections in the order of their rules; no message occurs
\* twice; the orchestrator returns both lists of the adapter unchanged.
C24_ListsInRuleOrder ==
    /\ (Classified /\ FromGoogle) => GoogleOrdered(parsed.value)
    /\ (Classified /\ FromSmarty) => SmartyOrdered(parsed.value)
    /\ googleOutcome.kind = "ok" => GoogleOrdered(googleOutcome.value)
    /\ smartyOutcome.kind = "ok" => SmartyOrdered(smartyOutcome.value)
    /\ (Settled /\ svc.kind = "ok") =>
          LET outcome == OutcomeOf(svc.value.provider) IN
          /\ outcome.kind = "ok"
          /\ svc.value.warnings = outcome.value.warnings
          /\ svc.value.corrections = outcome.value.corrections

C24_Witness ==
    /\ Classified /\ FromGoogle
    /\ parsed.value.warnings =
          <<NonUSWarning("CA"), "Address is incomplete",
            "Address contains suspicious components",
            "Address validation granularity is insufficient">>

IsValid(outcome) == outcome.status = "VALID"

\* C27: an outcome of either adapter with status VALID has no corrections; a
\* VALID outcome of the Google adapter has no warnings either, while a VALID
\* outcome of the Smarty adapter may carry the vacant or record-type warning.
C27_ValidHasNoCorrections ==
    /\ (Classified /\ IsValid(parsed.value)) =>
          /\ parsed.value.corrections = <<>>
          /\ FromGoogle => parsed.value.warnings = <<>>
          /\ FromSmarty => \A i \in DOMAIN parsed.value.warnings :
                               SmartyWarningRank(parsed.value.warnings[i]) \in {2, 3}
    /\ (googleOutcome.kind = "ok" /\ IsValid(googleOutcome.value)) =>
          googleOutcome.value.corrections = <<>> /\ googleOutcome.value.warnings = <<>>
    /\ (smartyOutcome.kind = "ok" /\ IsValid(smartyOutcome.value)) =>
          smartyOutcome.value.corrections = <<>>

C27_Witness ==
    /\ Classified /\ FromSmarty /\ IsValid(parsed.value)
    /\ parsed.value.corrections = <<>>
    /\ parsed.value.warnings = <<"Address is marked as vacant">>

UnverifiableReasons ==
    {NonUSWarning("CA"), "Address is incomplete", "Address contains suspicious components",
     "Address validation granularity is insufficient", USPSWarning,
     "No matching address found"}

Explained(outcome) ==
    outcome.status = "UNVERIFIABLE" =>
        /\ outcome.warnings # <<>>
        /\ Range(outcome.warnings) \cap UnverifiableReasons # {}

\* C28: every UNVERIFIABLE outcome, of either adapter and of every resolved
\* validateAddress call, has a non-empty warnings list that names the reason.
C28_UnverifiableIsExplained ==
    /\ Classified => Explained(parsed.value)
    /\ googleOutcome.kind = "ok" => Explained(googleOutcome.value)
    /\ smartyOutcome.kind = "ok" => Explained(smartyOutcome.value)
    /\ (Settled /\ svc.kind = "ok") => Explained(svc.value)

C28_Witness ==
    /\ Settled /\ svc.kind = "ok"
    /\ svc.value.status = "UNVERIFIABLE" /\ svc.value.provider = "smarty"
    /\ svc.value.warnings = <<"No matching address found">>

-----------------------------------------------------------------------------
(* Concurrent calls of addressService.validateAddress on the singleton
   service and adapters: each call suspends at its awaits, and the calls
   interleave there *)

ConcurrentBodies ==
    {[address |-> Address1], [address |-> Address2],
     [address |-> Address2, provider |-> "google"],
     [address |-> Address1, provider |-> "smarty"]}

ConcurrentGoogleReplies ==
    {[kind |-> "reject", message |-> <<"fetch failed">>],
     [kind |-> "http", ok |-> TRUE, json |-> GooglePayload(GoodVerdict, GoodPostal, GoodComponents)],
     [kind |-> "http", ok |-> TRUE,
      json |-> GooglePayload([GoodVerdict EXCEPT !.addressComplete = FALSE], GoodPostal,
                             GoodComponents)]}

ConcurrentSmartyReplies ==
    {[kind |-> "reject", message |-> <<"socket hang up">>],
     [kind |-> "http", ok |-> TRUE, json |-> SmartyJson(<<GoodCandidate>>)],
     [kind |-> "http", ok |-> TRUE, json |-> [isNull |-> TRUE]]}

\* the result of Google's call is kept in a field of the singleton, where
\* another call overwrites it
Locals_SharedField(calls_, r) ==
    LET others == {q \in Requests : q # r /\ calls_[q].g # None} IN
    IF others = {} THEN calls_[r]
    ELSE [calls_[r] EXCEPT !.g = calls_[CHOOSE q \in others : TRUE].g]

\* the parameters and local variables of call r: the services have no
\* mutable fields, every value lives in the activation of the async function
Locals(calls_, r) == calls_[r]

Resume(r, locals) ==
    /\ inflight' = [inflight EXCEPT ![r] = locals]
    /\ UNCHANGED <<orchVars, classVars>>

\* addressService.validateAddress(address, provider) is called
ConcurrentCall(r, body) ==
    LET my == Locals(inflight, r) IN
    /\ my.pc = "idle"
    /\ Resume(r, [my EXCEPT !.body = body, !.pc = FirstAdapter(ProviderOf(body))])

ConcurrentGoogleInvoke(r) ==
    LET my == Locals(inflight, r) IN
    /\ my.pc = "google"
    /\ Resume(r, IF GoogleNotConfigured(env)
                 THEN [my EXCEPT !.g = Rejected(GoogleConfigMessage), !.pc = "afterGoogle"]
                 ELSE [my EXCEPT !.pc = "googleFetch"])

ConcurrentGoogleSettle(r, reply) ==
    LET my == Locals(inflight, r) IN
    /\ my.pc = "googleFetch"
    /\ Resume(r, [my EXCEPT !.gReply = reply, !.g = GoogleOnReply(reply),
                            !.pc = "afterGoogle"])

ConcurrentAfterGoogle(r) ==
    LET my == Locals(inflight, r) IN
    /\ my.pc = "afterGoogle"
    /\ Resume(r,
          IF IsExplicit(ProviderOf(my.body))
          THEN [my EXCEPT !.result = ExplicitGoogle(my.body.address, my.g), !.pc = "settled"]
          ELSE IF my.g.kind = "ok"
          THEN LET response == validateWithGoogle(my.body.address, my.g.value) IN
               IF NeedsSmarty(response)
               THEN [my EXCEPT !.pc = "smarty"]
               ELSE [my EXCEPT !.result = Resolved(response), !.pc = "settled"]
          ELSE [my EXCEPT !.pc = CatchGoogle(my.g)])

ConcurrentSmartyInvoke(r) ==
    LET my == Locals(inflight, r) IN
    /\ my.pc = "smarty"
    /\ Resume(r, IF SmartyNotConfigured(env)
                 THEN [my EXCEPT !.s = Rejected(SmartyConfigMessage), !.pc = "afterSmarty"]
                 ELSE [my EXCEPT !.pc = "smartyFetch"])

ConcurrentSmartySettle(r, reply) ==
    LET my == Locals(inflight, r) IN
    /\ my.pc = "smartyFetch"
    /\ Resume(r, [my EXCEPT !.sReply = reply, !.s = SmartyOnReply(reply, my.body.address),
                            !.pc = "afterSmarty"])

ConcurrentAfterSmarty(r) ==
    LET my == Locals(inflight, r) IN
    /\ my.pc = "afterSmarty"
    /\ Resume(r,
          [my EXCEPT !.pc = "settled",
                     !.result =
                        IF IsExplicit(ProviderOf(my.body))
                        THEN ExplicitSmarty(my.body.address, my.s)
                        ELSE IF my.g.kind = "ok"
                        THEN SecondOpinion(my.body.address,
                                           validateWithGoogle(my.body.address, my.g.value), my.s)
                        ELSE AfterGoogleError(my.body.address, my.g, my.s)])

NextConcurrent ==
    \E r \in Requests :
        \/ \E body \in ConcurrentBodies : ConcurrentCall(r, body)
        \/ ConcurrentGoogleInvoke(r)
        \/ \E reply \in ConcurrentGoogleReplies : ConcurrentGoogleSettle(r, reply)
        \/ ConcurrentAfterGoogle(r)
        \/ ConcurrentSmartyInvoke(r)
        \/ \E reply \in ConcurrentSmartyReplies : ConcurrentSmartySettle(r, reply)
        \/ ConcurrentAfterSmarty(r)

SpecConcurrent == Init /\ [][NextConcurrent]_vars

\* the result of one call made alone under configuration e, with the given
\* answers of the providers (None: the provider did not answer)
Alone(e, body, gReply, sReply) ==
    LET address == body.address
        g == IF GoogleNotConfigured(e) THEN Rejected(GoogleConfigMessage)
             ELSE IF gReply = None THEN None ELSE GoogleOnReply(gReply)
        s == IF SmartyNotConfigured(e) THEN Rejected(SmartyConfigMessage)
             ELSE IF sReply = None THEN None ELSE SmartyOnReply(sReply, address)
        viaSmarty == IF s.kind = "ok"
                     THEN Resolved([input |-> address, standardized |-> s.value.standardized,
                                    status |-> s.value.status,
                                    corrections |-> s.value.corrections,
                                    provider |-> "smarty", warnings |-> s.value.warnings])
                     ELSE s
        viaGoogle == IF g.kind = "ok"
                     THEN Resolved([input |-> address, standardized |-> g.value.standardized,
                                    status |-> g.value.status,
                                    corrections |-> g.value.corrections,
                                    provider |-> "google", warnings |-> g.value.warnings])
                     ELSE g
    IN  IF Has(body, "provider") /\ body.provider = "google" THEN viaGoogle
        ELSE IF Has(body, "provider") /\ body.provider = "smarty" THEN viaSmarty
        ELSE IF g.kind = "ok" /\ g.value.status # "UNVERIFIABLE" THEN viaGoogle
        ELSE IF s.kind = "ok" THEN viaSmarty
        ELSE IF s.kind = "none" \/ g.kind = "none" THEN None
        ELSE IF g.kind = "ok" THEN viaGoogle
        ELSE Rejected(<<"Both providers failed", " - Google: ">> \o g.message
                          \o <<", Smarty: ">> \o s.message)

\* C25: whatever the interleaving of the concurrent calls, the result of each
\* call is the result it has when made alone with the same answers of the
\* providers: its status, corrections, warnings and provider tag owe nothing
\* to the other calls.
C25_RequestIsolation ==
    \A r \in Requests :
        inflight[r].pc = "settled" =>
            /\ inflight[r].result # None
            /\ inflight[r].result =
                  Alone(env, inflight[r].body, inflight[r].gReply, inflight[r].sReply)

C25_Witness ==
    /\ inflight[1].pc = "settled" /\ inflight[1].result.kind = "ok"
    /\ inflight[1].result.value.provider = "google"
    /\ inflight[1].result.value.status = "VALID"
    /\ inflight[2].pc = "afterSmarty" /\ inflight[2].g.kind = "err"
    /\ inflight[2].body.address # inflight[1].body.address

====
